---- MODULE Spec2Model ----
(***************************************************************************)
(* File transfer over a duplex byte stream (src/src/lib.rs) and the        *)
(* bounded reader ReadExact (src/src/read_exact.rs).                       *)
(*                                                                         *)
(* One side runs perform(Push): open the source file, take its length from *)
(* the metadata, write the length as a big-endian u64, copy the file to    *)
(* the write half until the file reports end-of-file, assert the copied    *)
(* count equals the length, then read one byte and assert it is CLOSE.     *)
(* The other side runs perform(Pull): remove and re-create the output      *)
(* file, read the u64 length, copy that many bytes through ReadExact into  *)
(* the file, then write the CLOSE byte.                                    *)
(*                                                                         *)
(* `wire` carries bytes from Push to Pull, `back` from Pull to Push.  Both *)
(* are reliable, ordered and hold at most Cap bytes.                       *)
(***************************************************************************)
EXTENDS Integers, Sequences, FiniteSets, TLC

\* ---- bounds of the model
MaxLen == 2      \* longest file content
Cap == 2         \* bytes a stream direction buffers
BufSize == 2     \* largest buffer a copy hands to one read
MaxMods == 2     \* changes another process makes to the source file

\* ---- program constants
CLOSE == 0
PrefixLen == 8
ByteRange == 256

VARIABLES
    \* source file (Push side)
    src,          \* current content of the source file
    srcExists,    \* whether File::open can open it
    srcAtOpen,    \* history: content when the metadata was taken
    mods,         \* history: changes made to the file since the metadata was taken
    \* Push task
    pushPc,       \* position of perform(Push)
    pushLen,      \* `bytes` of push_file: metadata().len()
    pushPos,      \* file offset of the copy = `read_bytes`
    pushOut,      \* bytes handed to a write that the stream has not taken yet
    pushMsg,      \* `msg` read by read_u8 (-1: none yet)
    pushStats,    \* stats.bytes of the returned result (-1: none)
    sent,         \* history: every byte Push wrote to its write half
    \* streams
    wire,         \* Push -> Pull, bytes in flight
    back,         \* Pull -> Push, bytes in flight
    linkDown,     \* the connection (or the stand-in peer) has closed
    backSent,     \* history: every byte written towards Push
    \* Pull task
    pullPc,       \* position of perform(Pull) (or of the ReadExact driver)
    hdr,          \* bytes of the length prefix read so far
    pullLen,      \* `bytes` of pull_file: the decoded prefix (-1: none yet)
    remaining,    \* ReadExact.remaining
    reNeed,       \* `bytes` of ReadExact::read: size of the exact read
    reBuf,        \* bytes the exact read has taken so far
    reAsk,        \* buf.len() of the last ReadExact::read (-1: none yet)
    reRet,        \* result of the last ReadExact::read: count, -1 Err, -2 none
    delivered,    \* history: bytes returned by successful ReadExact reads
    consumed,     \* history: bytes Pull took from its read half
    afterInner,   \* bytes read from the stream that into_inner gave back
    written,      \* bytes the copy has handed to the output file
    pullStats,    \* stats.bytes of the returned result (-1: none)
    pullErr,      \* kind of the io::Error Pull returned ("none": no error)
    \* destination file (Pull side)
    dst,          \* content on disk
    dstExists,    \* whether the path exists
    dstPending,   \* bytes accepted by File whose write has not completed
    dstOld        \* history: what the path held before Pull started

srcVars  == <<src, srcExists, srcAtOpen, mods>>
modified == mods > 0
pushVars == <<pushPc, pushLen, pushPos, pushOut, pushMsg, pushStats, sent>>
linkVars == <<wire, back, linkDown, backSent>>
reVars   == <<remaining, reNeed, reBuf, reAsk, reRet, delivered, consumed, afterInner>>
pullVars == <<pullPc, hdr, pullLen, written, pullStats, pullErr>>
dstVars  == <<dst, dstExists, dstPending, dstOld>>
vars == <<srcVars, pushVars, linkVars, reVars, pullVars, dstVars>>

\* ---- helpers
Min(a, b) == IF a < b THEN a ELSE b
Take(s, n) == SubSeq(s, 1, n)
Drop(s, n) == SubSeq(s, n + 1, Len(s))
Front(s) == SubSeq(s, 1, Len(s) - 1)
SeqsUpTo(S, n) == UNION {[1..k -> S] : k \in 0..n}
\* file bytes: the CLOSE value and another one
FileByte == {0, 1}
Contents == SeqsUpTo(FileByte, MaxLen)
\* what the output path may hold beforehand: bytes no transfer carries
OldContents == SeqsUpTo({255}, MaxLen + 1)

\* write_u64: the value as PrefixLen bytes, most significant first
RECURSIVE BigEndian(_, _)
BigEndian(n, w) ==
    IF w = 0 THEN <<>>
    ELSE Append(BigEndian(n \div ByteRange, w - 1), n % ByteRange)
\* the value as PrefixLen bytes, least significant first
RECURSIVE LittleEndian(_, _)
LittleEndian(n, w) ==
    IF w = 0 THEN <<>>
    ELSE <<n % ByteRange>> \o LittleEndian(n \div ByteRange, w - 1)
U64ToBytesLittle(n) == LittleEndian(n, PrefixLen)

U64ToBytes(n) == BigEndian(n, PrefixLen)

\* read_u64: the inverse, most significant byte first
RECURSIVE BytesToU64(_)
BytesToU64(s) ==
    IF s = <<>> THEN 0
    ELSE BytesToU64(Front(s)) * ByteRange + s[Len(s)]

\* ---- who has let go of the streams
\* An Err return or a panic drops both halves; an Ok return hands them back.
PushGone == pushPc \in {"err", "panic"}
PullGone == pullPc = "err"
WireEof == wire = <<>> /\ (PushGone \/ linkDown)
BackEof == back = <<>> /\ (PullGone \/ linkDown)
WireBroken == PullGone \/ linkDown
BackBroken == PushGone \/ linkDown

\* ---- the source file changing under Push (another process writes to it)
\* (a change before the metadata is taken is a different initial content)
PushRunning == pushPc \in {"write_u64", "copy_read", "copy_write"}

\* (the file grows to at most one byte more than the longest initial content)
FileAppend ==
    /\ PushRunning
    /\ mods < MaxMods
    /\ Len(src) < MaxLen + 1
    /\ \E b \in FileByte : src' = Append(src, b)
    /\ mods' = mods + 1
    /\ UNCHANGED <<srcExists, srcAtOpen, pushVars, linkVars, reVars, pullVars, dstVars>>

FileTruncate ==
    /\ PushRunning
    /\ mods < MaxMods
    /\ Len(src) > 0
    /\ src' = Front(src)
    /\ mods' = mods + 1
    /\ UNCHANGED <<srcExists, srcAtOpen, pushVars, linkVars, reVars, pullVars, dstVars>>

\* ---- perform(Push), push_file
\* File::open(source_file).await?
PushOpen ==
    /\ pushPc = "start"
    /\ pushPc' = IF srcExists THEN "metadata" ELSE "err"
    /\ UNCHANGED <<pushLen, pushPos, pushOut, pushMsg, pushStats, sent>>
    /\ UNCHANGED <<srcVars, linkVars, reVars, pullVars, dstVars>>

\* let bytes = file.metadata().await?.len(); the write of the prefix is next
PushMetadata ==
    /\ pushPc = "metadata"
    /\ pushLen' = Len(src)
    /\ srcAtOpen' = src
    /\ pushOut' = U64ToBytes(Len(src))
    /\ pushPc' = "write_u64"
    /\ UNCHANGED <<pushPos, pushMsg, pushStats, sent>>
    /\ UNCHANGED <<src, srcExists, mods, linkVars, reVars, pullVars, dstVars>>

\* a single write instead of write_all: whatever the stream did not take at once
\* is dropped and the sender moves on
PushWriteOnce(here, next) ==
    /\ pushPc = here
    /\ IF WireBroken
       THEN /\ pushPc' = "err"
            /\ UNCHANGED <<pushOut, sent, wire>>
       ELSE \E n \in 1..Min(Len(pushOut), Cap - Len(wire)) :
            /\ wire' = wire \o Take(pushOut, n)
            /\ sent' = sent \o Take(pushOut, n)
            /\ pushOut' = <<>>
            /\ pushPc' = next
    /\ UNCHANGED <<pushLen, pushPos, pushMsg, pushStats>>
    /\ UNCHANGED <<back, linkDown, backSent>>
    /\ UNCHANGED <<srcVars, reVars, pullVars, dstVars>>

\* one poll_write of the write half: the stream takes 1..free bytes of pushOut,
\* or reports a broken pipe once the peer has let go of its read half
PushWrite(here, next) ==
    /\ pushPc = here
    /\ IF WireBroken
       THEN /\ pushPc' = "err"
            /\ UNCHANGED <<pushOut, sent, wire>>
       ELSE \E n \in 1..Min(Len(pushOut), Cap - Len(wire)) :
            /\ wire' = wire \o Take(pushOut, n)
            /\ sent' = sent \o Take(pushOut, n)
            /\ pushOut' = Drop(pushOut, n)
            /\ pushPc' = IF n = Len(pushOut) THEN next ELSE here
    /\ UNCHANGED <<pushLen, pushPos, pushMsg, pushStats>>
    /\ UNCHANGED <<back, linkDown, backSent>>
    /\ UNCHANGED <<srcVars, reVars, pullVars, dstVars>>

\* write.write_u64(bytes).await?
PushWriteU64 == PushWrite("write_u64", "copy_read")

\* a read that does not advance: every chunk comes from the start of the file
FileReadFromStart(pos, k) == SubSeq(src, 1, Min(Len(src) - pos, k))

\* what one read of the file at offset pos with a buffer of k bytes returns
FileRead(pos, k) == SubSeq(src, pos + 1, Min(Len(src), pos + k))

\* the copied count not compared with the length
PushAfterCopyUnchecked(bytes, read_bytes) == "read_u8"

\* assert_eq!(bytes, read_bytes, "file modified during transmission")
PushAfterCopy(bytes, read_bytes) == IF bytes = read_bytes THEN "read_u8" ELSE "panic"

\* tokio::io::copy(&mut file, &mut write): read a chunk of the file; an empty read
\* is end-of-file, the copy flushes and returns read_bytes, and the assert follows
PushCopyRead ==
    /\ pushPc = "copy_read"
    /\ \E k \in 1..BufSize :
         LET chunk == FileRead(pushPos, k) IN
         IF chunk = <<>>
         THEN /\ pushPc' = PushAfterCopy(pushLen, pushPos)
              /\ UNCHANGED <<pushOut, pushPos>>
         ELSE /\ pushOut' = chunk
              /\ pushPos' = pushPos + Len(chunk)
              /\ pushPc' = "copy_write"
    /\ UNCHANGED <<pushLen, pushMsg, pushStats, sent>>
    /\ UNCHANGED <<srcVars, linkVars, reVars, pullVars, dstVars>>

\* tokio::io::copy: write the chunk out
PushCopyWrite == PushWrite("copy_write", "copy_read")

\* the handshake byte not compared with CLOSE
MsgAcceptedAny(msg) == TRUE

\* assert_eq!(msg, CLOSE)
MsgAccepted(msg) == msg = CLOSE

\* let msg = read.read_u8().await?; assert_eq!(msg, CLOSE); then the stats
PushReadU8 ==
    /\ pushPc = "read_u8"
    /\ \/ /\ back # <<>>
          /\ pushMsg' = Head(back)
          /\ back' = Tail(back)
          /\ IF MsgAccepted(Head(back))
             THEN pushPc' = "done" /\ pushStats' = pushPos
             ELSE pushPc' = "panic" /\ UNCHANGED pushStats
       \/ /\ BackEof
          /\ pushPc' = "err"
          /\ UNCHANGED <<pushMsg, pushStats, back>>
    /\ UNCHANGED <<pushLen, pushPos, pushOut, sent>>
    /\ UNCHANGED <<wire, linkDown, backSent>>
    /\ UNCHANGED <<srcVars, reVars, pullVars, dstVars>>

PushStep ==
    \/ PushOpen
    \/ PushMetadata
    \/ PushWriteU64
    \/ PushCopyRead
    \/ PushCopyWrite
    \/ PushReadU8

\* ---- ReadExact (read_exact.rs)
\* the read sized by the buffer alone, the cap forgotten
ReadSizeUncapped(rem, k) == k

\* let bytes = self.remaining.min(buf.len())
ReadSize(rem, k) == Min(rem, k)

\* the cap lowered by one per read instead of by the bytes read
RemainingAfterByOne(rem, bytes) == rem - 1

\* self.remaining -= bytes
RemainingAfter(rem, bytes) == rem - bytes

\* ReadExact::read(buf) with buf.len() = k, up to the exact read: a size of 0
\* returns Ok(0) at once (position `zero`), otherwise the exact read starts
ReadBegin(k, zero, fill) ==
    LET bytes == ReadSize(remaining, k) IN
    /\ reAsk' = k
    /\ IF bytes = 0
       THEN /\ reRet' = 0
            /\ pullPc' = zero
            /\ UNCHANGED <<remaining, reNeed, reBuf, delivered, consumed, afterInner>>
       ELSE /\ reNeed' = bytes
            /\ reBuf' = <<>>
            /\ reRet' = -2
            /\ pullPc' = fill
            /\ UNCHANGED <<remaining, delivered, consumed, afterInner>>

\* a plain read in place of the exact read: at end-of-stream it returns the
\* bytes it has, and the copy takes an empty read for the end of the payload
ReadFillShort(here, full, failed) ==
    /\ pullPc = here
    /\ \/ /\ wire # <<>>
          /\ \E n \in 1..Min(Len(wire), reNeed - Len(reBuf)) :
               /\ wire' = Drop(wire, n)
               /\ consumed' = consumed + n
               /\ reBuf' = reBuf \o Take(wire, n)
               /\ IF Len(reBuf) + n = reNeed
                  THEN /\ remaining' = remaining - reNeed
                       /\ reRet' = reNeed
                       /\ delivered' = delivered \o reBuf \o Take(wire, n)
                       /\ pullPc' = full
                  ELSE /\ UNCHANGED <<remaining, reRet, delivered, pullPc>>
       \/ /\ WireEof
          /\ reRet' = Len(reBuf)
          /\ remaining' = remaining - Len(reBuf)
          /\ delivered' = delivered \o reBuf
          /\ pullPc' = IF reBuf = <<>> THEN "copy_flush" ELSE full
          /\ UNCHANGED <<wire, consumed, reBuf>>
    /\ UNCHANGED <<reNeed, reAsk, afterInner>>

\* self.read.read_exact(&mut buf[..bytes]).await?: one poll_read of the
\* underlying stream takes 1..available bytes; end-of-stream before `bytes`
\* bytes is an UnexpectedEof error, and the bytes taken so far are gone.
\* Once the buffer is full: self.remaining -= bytes; Ok(bytes)
ReadFill(here, full, failed) ==
    /\ pullPc = here
    /\ \/ /\ wire # <<>>
          /\ \E n \in 1..Min(Len(wire), reNeed - Len(reBuf)) :
               /\ wire' = Drop(wire, n)
               /\ consumed' = consumed + n
               /\ reBuf' = reBuf \o Take(wire, n)
               /\ IF Len(reBuf) + n = reNeed
                  THEN /\ remaining' = RemainingAfter(remaining, reNeed)
                       /\ reRet' = reNeed
                       /\ delivered' = delivered \o reBuf \o Take(wire, n)
                       /\ pullPc' = full
                  ELSE /\ UNCHANGED <<remaining, reRet, delivered, pullPc>>
       \/ /\ WireEof
          /\ reRet' = -1
          /\ pullPc' = failed
          /\ UNCHANGED <<wire, consumed, reBuf, remaining, delivered>>
    /\ UNCHANGED <<reNeed, reAsk, afterInner>>

\* ---- the output file
\* the blocking write that File started completes: the bytes are on disk
\* (at the file's cursor: behind the bytes this handle has written before)
FileWriteComplete ==
    /\ dstPending # <<>>
    /\ LET pos == written - Len(dstPending) IN
         dst' = Take(dst, pos) \o dstPending \o Drop(dst, pos + Len(dstPending))
    /\ dstPending' = <<>>
    /\ UNCHANGED <<dstExists, dstOld, srcVars, pushVars, linkVars, reVars, pullVars>>

\* poll_flush of File (and the start of its next write): the write in flight is over
FileIdle == dstPending = <<>>

\* ---- perform(Pull), pull_file
\* let _ = tokio::fs::remove_file(&output_file).await
PullRemove ==
    /\ pullPc = "start"
    /\ \/ dstExists' = FALSE /\ dst' = <<>>
       \/ UNCHANGED <<dst, dstExists>>      \* the removal failed: ignored
    /\ pullPc' = "open"
    /\ UNCHANGED <<dstPending, dstOld, hdr, pullLen, written, pullStats, pullErr>>
    /\ UNCHANGED <<srcVars, pushVars, linkVars, reVars>>

\* File::options().write(true).create(true).truncate(true).open(output_file).await?
\* an open that creates the file but leaves what an existing one holds
PullOpenNoTruncate ==
    /\ pullPc = "open"
    /\ dstExists' = TRUE
    /\ pullPc' = "read_u64"
    /\ UNCHANGED <<dst, dstPending, dstOld, hdr, pullLen, written, pullStats, pullErr>>
    /\ UNCHANGED <<srcVars, pushVars, linkVars, reVars>>

PullOpen ==
    /\ pullPc = "open"
    /\ dstExists' = TRUE
    /\ dst' = <<>>
    /\ pullPc' = "read_u64"
    /\ UNCHANGED <<dstPending, dstOld, hdr, pullLen, written, pullStats, pullErr>>
    /\ UNCHANGED <<srcVars, pushVars, linkVars, reVars>>

\* the same open failing (permissions, no such directory): `?` returns the error
PullOpenFail ==
    /\ pullPc = "open"
    /\ pullPc' = "err"
    /\ pullErr' = "Fs"
    /\ UNCHANGED <<hdr, pullLen, written, pullStats>>
    /\ UNCHANGED <<srcVars, pushVars, linkVars, reVars, dstVars>>

\* a prefix read that takes the end of the stream for a length of zero
PullReadU64Lenient ==
    /\ pullPc = "read_u64"
    /\ \/ /\ wire # <<>>
          /\ \E n \in 1..Min(Len(wire), PrefixLen - Len(hdr)) :
               /\ wire' = Drop(wire, n)
               /\ consumed' = consumed + n
               /\ hdr' = hdr \o Take(wire, n)
               /\ IF Len(hdr) + n = PrefixLen
                  THEN /\ pullLen' = BytesToU64(hdr \o Take(wire, n))
                       /\ remaining' = BytesToU64(hdr \o Take(wire, n))
                       /\ pullPc' = "copy_read"
                  ELSE UNCHANGED <<pullLen, remaining, pullPc>>
          /\ UNCHANGED pullErr
       \/ /\ WireEof
          /\ pullPc' = "copy_read"
          /\ pullLen' = 0
          /\ remaining' = 0
          /\ UNCHANGED <<wire, consumed, hdr, pullErr>>
    /\ UNCHANGED <<written, pullStats, reNeed, reBuf, reAsk, reRet, delivered, afterInner>>
    /\ UNCHANGED <<back, linkDown, backSent>>
    /\ UNCHANGED <<srcVars, pushVars, dstVars>>

\* let bytes = read.read_u64().await?; ReadExact::new(read, bytes)
PullReadU64 ==
    /\ pullPc = "read_u64"
    /\ \/ /\ wire # <<>>
          /\ \E n \in 1..Min(Len(wire), PrefixLen - Len(hdr)) :
               /\ wire' = Drop(wire, n)
               /\ consumed' = consumed + n
               /\ hdr' = hdr \o Take(wire, n)
               /\ IF Len(hdr) + n = PrefixLen
                  THEN /\ pullLen' = BytesToU64(hdr \o Take(wire, n))
                       /\ remaining' = BytesToU64(hdr \o Take(wire, n))
                       /\ pullPc' = "copy_read"
                  ELSE UNCHANGED <<pullLen, remaining, pullPc>>
          /\ UNCHANGED pullErr
       \/ /\ WireEof
          /\ pullPc' = "err"
          /\ pullErr' = "UnexpectedEof"
          /\ UNCHANGED <<wire, consumed, hdr, pullLen, remaining>>
    /\ UNCHANGED <<written, pullStats, reNeed, reBuf, reAsk, reRet, delivered, afterInner>>
    /\ UNCHANGED <<back, linkDown, backSent>>
    /\ UNCHANGED <<srcVars, pushVars, dstVars>>

\* tokio::io::copy(&mut read, &mut file): ask the bounded reader for a chunk;
\* Ok(0) is end-of-stream and the copy goes on to flush the file
PullCopyRead ==
    /\ pullPc = "copy_read"
    /\ \E k \in 1..BufSize : ReadBegin(k, "copy_flush", "read_exact")
    /\ UNCHANGED <<hdr, pullLen, written, pullStats, pullErr>>
    /\ UNCHANGED <<srcVars, pushVars, linkVars, dstVars>>

\* the exact read inside ReadExact::read; an error ends pull_file with Err
PullReadExact ==
    /\ ReadFill("read_exact", "copy_write", "err")
    /\ pullErr' = IF pullPc' = "err" THEN "UnexpectedEof" ELSE pullErr
    /\ UNCHANGED <<hdr, pullLen, written, pullStats>>
    /\ UNCHANGED <<back, linkDown, backSent>>
    /\ UNCHANGED <<srcVars, pushVars, dstVars>>

\* tokio::io::copy: hand the chunk to the file, once its previous write is over
PullCopyWrite ==
    /\ pullPc = "copy_write"
    /\ FileIdle
    /\ dstPending' = reBuf
    /\ written' = written + Len(reBuf)
    /\ reBuf' = <<>>
    /\ pullPc' = "copy_read"
    /\ UNCHANGED <<dst, dstExists, dstOld, hdr, pullLen, pullStats, pullErr>>
    /\ UNCHANGED <<remaining, reNeed, reAsk, reRet, delivered, consumed, afterInner>>
    /\ UNCHANGED <<srcVars, pushVars, linkVars>>

\* a copy that returns without flushing the file
CopyNotFlushed == TRUE

\* when the copy may return: its flush of the file is over
CopyFlushed == FileIdle

\* tokio::io::copy: flush the file and return `written`; into_inner hands the
\* read half back
PullCopyFlush ==
    /\ pullPc = "copy_flush"
    /\ CopyFlushed
    /\ pullPc' = "write_u8"
    /\ UNCHANGED <<hdr, pullLen, written, pullStats, pullErr>>
    /\ UNCHANGED <<srcVars, pushVars, linkVars, reVars, dstVars>>

\* the signal written twice
PullWriteU8Twice ==
    /\ pullPc = "write_u8"
    /\ IF BackBroken
       THEN /\ pullPc' = "err"
            /\ pullErr' = "BrokenPipe"
            /\ UNCHANGED <<back, backSent, pullStats>>
       ELSE /\ Len(back) + 1 < Cap
            /\ back' = back \o <<CLOSE, CLOSE>>
            /\ backSent' = backSent \o <<CLOSE, CLOSE>>
            /\ pullStats' = written
            /\ pullPc' = "done"
            /\ UNCHANGED pullErr
    /\ UNCHANGED <<hdr, pullLen, written>>
    /\ UNCHANGED <<wire, linkDown>>
    /\ UNCHANGED <<srcVars, pushVars, reVars, dstVars>>

\* write.write_u8(CLOSE).await?; then the stats
PullWriteU8 ==
    /\ pullPc = "write_u8"
    /\ IF BackBroken
       THEN /\ pullPc' = "err"
            /\ pullErr' = "BrokenPipe"
            /\ UNCHANGED <<back, backSent, pullStats>>
       ELSE /\ Len(back) < Cap
            /\ back' = Append(back, CLOSE)
            /\ backSent' = Append(backSent, CLOSE)
            /\ pullStats' = written
            /\ pullPc' = "done"
            /\ UNCHANGED pullErr
    /\ UNCHANGED <<hdr, pullLen, written>>
    /\ UNCHANGED <<wire, linkDown>>
    /\ UNCHANGED <<srcVars, pushVars, reVars, dstVars>>

PullStep ==
    \/ PullRemove
    \/ PullOpen
    \/ PullOpenFail
    \/ PullReadU64
    \/ PullCopyRead
    \/ PullReadExact
    \/ PullCopyWrite
    \/ PullCopyFlush
    \/ PullWriteU8

\* ---- the connection
\* the transport fails (reset): both directions end
Disconnect ==
    /\ ~linkDown
    /\ pushPc \notin {"done", "err", "panic"} \/ pullPc \notin {"done", "err"}
    /\ linkDown' = TRUE
    /\ UNCHANGED <<wire, back, backSent>>
    /\ UNCHANGED <<srcVars, pushVars, reVars, pullVars, dstVars>>

\* ---- a Push and a Pull on the two ends of one connection
Init ==
    /\ src \in Contents
    /\ srcExists \in BOOLEAN
    /\ srcExists = FALSE => src = <<>>
    /\ srcAtOpen = <<>>
    /\ mods = 0
    /\ pushPc = "start"
    /\ pushLen = 0
    /\ pushPos = 0
    /\ pushOut = <<>>
    /\ pushMsg = -1
    /\ pushStats = -1
    /\ sent = <<>>
    /\ wire = <<>>
    /\ back = <<>>
    /\ linkDown = FALSE
    /\ backSent = <<>>
    /\ pullPc = "start"
    /\ hdr = <<>>
    /\ pullLen = -1
    /\ remaining = 0
    /\ reNeed = 0
    /\ reBuf = <<>>
    /\ reAsk = -1
    /\ reRet = -2
    /\ delivered = <<>>
    /\ consumed = 0
    /\ afterInner = <<>>
    /\ written = 0
    /\ pullStats = -1
    /\ pullErr = "none"
    /\ dstExists \in BOOLEAN
    /\ dst \in OldContents
    /\ dstExists = FALSE => dst = <<>>
    /\ dstPending = <<>>
    /\ dstOld = dst

Next ==
    \/ PushStep
    \/ PullStep
    \/ FileWriteComplete
    \/ FileAppend
    \/ FileTruncate
    \/ Disconnect

Spec == Init /\ [][Next]_vars

\* ---- a Push against any peer: the other end takes what Push writes and may
\* ---- answer with any byte at any time, or close
PeerTake ==
    /\ pullPc = "peer"
    /\ wire # <<>>
    /\ \E n \in 1..Len(wire) : wire' = Drop(wire, n)
    /\ UNCHANGED <<back, linkDown, backSent>>
    /\ UNCHANGED <<srcVars, pushVars, reVars, pullVars, dstVars>>

PeerSend ==
    /\ pullPc = "peer"
    /\ ~linkDown
    /\ Len(back) < Cap
    /\ \E b \in FileByte :
         /\ back' = Append(back, b)
         /\ backSent' = Append(backSent, b)
    /\ UNCHANGED <<wire, linkDown>>
    /\ UNCHANGED <<srcVars, pushVars, reVars, pullVars, dstVars>>

PeerClose ==
    /\ pullPc = "peer"
    /\ ~linkDown
    /\ linkDown' = TRUE
    /\ UNCHANGED <<wire, back, backSent>>
    /\ UNCHANGED <<srcVars, pushVars, reVars, pullVars, dstVars>>

InitPeer ==
    /\ src \in Contents
    /\ srcExists \in BOOLEAN
    /\ srcExists = FALSE => src = <<>>
    /\ srcAtOpen = <<>>
    /\ mods = 0
    /\ pushPc = "start"
    /\ pushLen = 0
    /\ pushPos = 0
    /\ pushOut = <<>>
    /\ pushMsg = -1
    /\ pushStats = -1
    /\ sent = <<>>
    /\ wire = <<>>
    /\ back = <<>>
    /\ linkDown = FALSE
    /\ backSent = <<>>
    /\ pullPc = "peer"
    /\ hdr = <<>>
    /\ pullLen = -1
    /\ remaining = 0
    /\ reNeed = 0
    /\ reBuf = <<>>
    /\ reAsk = -1
    /\ reRet = -2
    /\ delivered = <<>>
    /\ consumed = 0
    /\ afterInner = <<>>
    /\ written = 0
    /\ pullStats = -1
    /\ pullErr = "none"
    /\ dstExists = FALSE
    /\ dst = <<>>
    /\ dstPending = <<>>
    /\ dstOld = <<>>

NextPeer ==
    \/ PushStep
    \/ FileAppend
    \/ FileTruncate
    \/ PeerTake
    \/ PeerSend
    \/ PeerClose

SpecPeer == InitPeer /\ [][NextPeer]_vars

\* ---- ReadExact used directly: new(read, cap) on a stream that already holds
\* ---- its bytes, reads with any buffer size, then into_inner and a plain read
\* ReadExact::read(buf) with any buf.len(), the empty buffer included
RERead ==
    /\ pullPc = "re_idle"
    /\ \E k \in 0..BufSize : ReadBegin(k, "re_idle", "re_fill")
    /\ UNCHANGED <<hdr, pullLen, written, pullStats, pullErr>>
    /\ UNCHANGED <<srcVars, pushVars, linkVars, dstVars>>

\* the exact read; after an error the caller still holds the reader
REFill ==
    /\ ReadFill("re_fill", "re_idle", "re_idle")
    /\ UNCHANGED <<hdr, pullLen, written, pullStats, pullErr>>
    /\ UNCHANGED <<back, linkDown, backSent>>
    /\ UNCHANGED <<srcVars, pushVars, dstVars>>

\* into_inner(self) -> R
REIntoInner ==
    /\ pullPc = "re_idle"
    /\ pullPc' = "inner"
    /\ UNCHANGED <<hdr, pullLen, written, pullStats, pullErr>>
    /\ UNCHANGED <<srcVars, pushVars, linkVars, reVars, dstVars>>

\* a read of one byte on the recovered stream
InnerRead ==
    /\ pullPc = "inner"
    /\ wire # <<>>
    /\ afterInner' = Append(afterInner, Head(wire))
    /\ wire' = Tail(wire)
    /\ UNCHANGED <<remaining, reNeed, reBuf, reAsk, reRet, delivered, consumed>>
    /\ UNCHANGED <<back, linkDown, backSent>>
    /\ UNCHANGED <<srcVars, pushVars, pullVars, dstVars>>

\* ReadExact::new(read, bytes): pullLen keeps the cap, sent the stream's content
InitRE ==
    /\ sent \in SeqsUpTo(FileByte, MaxLen + 1)
    /\ wire = sent
    /\ linkDown \in BOOLEAN
    /\ pullLen \in 0..MaxLen
    /\ remaining = pullLen
    /\ pullPc = "re_idle"
    /\ src = <<>>
    /\ srcExists = FALSE
    /\ srcAtOpen = <<>>
    /\ mods = 0
    /\ pushPc = "done"
    /\ pushLen = 0
    /\ pushPos = 0
    /\ pushOut = <<>>
    /\ pushMsg = -1
    /\ pushStats = -1
    /\ back = <<>>
    /\ backSent = <<>>
    /\ hdr = <<>>
    /\ reNeed = 0
    /\ reBuf = <<>>
    /\ reAsk = -1
    /\ reRet = -2
    /\ delivered = <<>>
    /\ consumed = 0
    /\ afterInner = <<>>
    /\ written = 0
    /\ pullStats = -1
    /\ pullErr = "none"
    /\ dstExists = FALSE
    /\ dst = <<>>
    /\ dstPending = <<>>
    /\ dstOld = <<>>

NextRE ==
    \/ RERead
    \/ REFill
    \/ REIntoInner
    \/ InnerRead

SpecRE == InitRE /\ [][NextRE]_vars

\* ======================================================================
\* Properties
\* ======================================================================
BothOk == pushPc = "done" /\ pullPc = "done"

\* C1 (Spec): round-trip identity.  When perform(Push) and perform(Pull) have
\* both returned Ok, both stats report the length L that Push took from the
\* metadata, and, the source file holding one content C throughout, the
\* destination file exists and holds exactly C, all of it on disk.
RoundTrip ==
    BothOk =>
        /\ pushStats = pushLen
        /\ pullStats = pushLen
        /\ ~modified =>
             /\ Len(src) = pushLen
             /\ dstExists
             /\ dst = src
             /\ dstPending = <<>>

\* a transfer of a longest file with two different bytes has completed
RoundTripWitness ==
    /\ BothOk
    /\ ~modified
    /\ Len(src) = MaxLen
    /\ src[1] = 1
    /\ src[MaxLen] = 0
    /\ dst = src

\* C2 (SpecRE): frame isolation of the bounded reader.  For a reader created
\* with cap L = pullLen on a stream holding `sent`: the bytes its reads return
\* are, in order, the first bytes of the stream and never more than L of them;
\* it never takes more than L bytes from the stream; a read with a non-empty
\* buffer that returns 0 means all L bytes have been returned, and a reader
\* that has returned them is never inside a read of the stream; and when the
\* stream held the L payload bytes and the reader has returned them, the first
\* byte read from the stream that into_inner gives back is the byte that
\* directly followed the payload.
FrameIsolation ==
    /\ Len(delivered) <= pullLen
    /\ delivered = Take(sent, Len(delivered))
    /\ consumed <= pullLen
    /\ remaining = pullLen - Len(delivered)
    /\ (pullPc = "re_idle" /\ reRet = 0 /\ reAsk > 0) => Len(delivered) = pullLen
    /\ pullPc = "re_fill" => (1 <= reNeed /\ reNeed <= remaining)
    /\ (afterInner # <<>> /\ Len(delivered) = pullLen) => afterInner[1] = sent[pullLen + 1]

\* all of a two-byte payload was returned, the reader then reported
\* end-of-stream, and the recovered stream yielded the trailing byte
FrameIsolationWitness ==
    /\ pullLen = MaxLen
    /\ Len(sent) = MaxLen + 1
    /\ sent[MaxLen] # sent[MaxLen + 1]
    /\ delivered = Take(sent, MaxLen)
    /\ reRet = 0
    /\ reAsk > 0
    /\ afterInner = <<sent[MaxLen + 1]>>

\* C3 (Spec): handshake ordering.  Once Pull has written the CLOSE byte, all
\* L declared payload bytes are in the destination file on disk (the copy has
\* returned L and its flush is over); Push has stats only after it has read
\* the CLOSE byte.
HandshakeOrdering ==
    /\ backSent # <<>> =>
         /\ pullLen >= 0
         /\ written = pullLen
         /\ dstPending = <<>>
         /\ dst = delivered
         /\ Len(dst) = pullLen
    /\ pushStats # -1 => pushMsg = CLOSE /\ backSent # <<>>

\* Pull has signalled after a longest payload and Push has returned its stats
HandshakeOrderingWitness ==
    /\ backSent = <<CLOSE>>
    /\ pullLen = MaxLen
    /\ Len(dst) = MaxLen
    /\ pushStats = MaxLen

\* C4 as stated (Spec): never one side Ok while the other side has failed.
NoPartialOutcome ==
    /\ ~(pullPc = "done" /\ pushPc \in {"err", "panic"})
    /\ ~(pushPc = "done" /\ pullPc = "err")

\* C4 as amended (Spec): when both sides return Ok they report the same byte
\* count, the L of the prefix; and Push returns Ok only when Pull has received
\* all L bytes, written the CLOSE byte and returned Ok with that count.  (Pull
\* may return Ok while Push fails.)
PushOkImpliesPullOk ==
    /\ BothOk => (pushStats = pullStats /\ pullStats = pullLen /\ pullLen = pushLen)
    /\ pushPc = "done" => (pullPc = "done" /\ pullStats = pushStats)

\* both sides have returned Ok after a transfer of a longest file
PushOkImpliesPullOkWitness ==
    /\ BothOk
    /\ pushStats = MaxLen
    /\ pullStats = MaxLen

\* C5 as stated (Spec): Push never has more than 8 + L bytes on its write half.
PushWritesAtMostDeclared == Len(sent) <= PrefixLen + pushLen

\* C5 as amended (Spec): what Push has written is the 8-byte big-endian prefix
\* of L followed by the bytes its copy has read from the file so far, the copy
\* running until the file reports end-of-file; whenever push_file returns Ok,
\* and whenever the file did not change, that is at most 8 + L bytes, exactly
\* 8 + L once the copy has returned Ok.
PushWireFormat ==
    /\ pushPc \in {"write_u64", "copy_read", "copy_write", "read_u8", "done", "panic"} =>
         /\ Take(sent \o pushOut, PrefixLen) = U64ToBytes(pushLen)
         /\ Len(sent) + Len(pushOut) = PrefixLen + pushPos
         /\ (sent \o pushOut)[PrefixLen] = pushLen
         /\ \A i \in 1..(PrefixLen - 1) : (sent \o pushOut)[i] = 0
    /\ pushPc \in {"read_u8", "done"} => Len(sent) = PrefixLen + pushLen
    /\ ~modified =>
         /\ Len(sent) <= PrefixLen + pushLen
         /\ pushPc \in {"copy_read", "copy_write", "read_u8", "done"} =>
              Drop(sent \o pushOut, PrefixLen) = Take(src, pushPos)

\* Push has written the prefix and a whole longest file and its copy returned Ok
PushWireFormatWitness ==
    /\ pushPc = "read_u8"
    /\ pushLen = MaxLen
    /\ Len(sent) = PrefixLen + MaxLen
    /\ sent[PrefixLen] = MaxLen
    /\ ~modified

\* C6 (Spec): exactly one completion signal.  At most one byte is ever written
\* towards Push and it has the value 0; it is written by Pull's write_u8 and by
\* no other step; when it is written every payload byte has been taken from
\* the stream and handed to the file; and a Pull that returned Ok, hence every
\* completed transfer, has written exactly one.
OneCompletionSignal ==
    /\ Len(backSent) <= 1
    /\ \A i \in 1..Len(backSent) : backSent[i] = 0
    /\ backSent # <<>> =>
         /\ pullPc = "done"
         /\ consumed = PrefixLen + pullLen
         /\ written = pullLen
         /\ Len(delivered) = pullLen
    /\ pullPc = "done" => backSent = <<0>>
    /\ BothOk => (backSent = <<0>> /\ back = <<>> /\ pushMsg = 0)

\* a completed transfer of a longest file: one signal written and read
OneCompletionSignalWitness ==
    /\ BothOk
    /\ pullLen = MaxLen
    /\ backSent = <<0>>
    /\ back = <<>>

\* pull_file has returned Ok
PullFileOk == pullPc \in {"write_u8", "done"}

\* C7 (Spec): Pull reads exactly the declared payload.  When pull_file has
\* returned Ok, the count it wrote and reports is the L of the prefix it read,
\* it has taken exactly 8 + L bytes from its read half, and the read half it
\* gives back stands directly after the payload: what Push wrote beyond
\* 8 + L bytes is still in the stream, untouched.
PullReadsExactly ==
    /\ Len(sent) = consumed + Len(wire)
    /\ PullFileOk =>
         /\ written = pullLen
         /\ hdr = Take(sent, PrefixLen)
         /\ pullLen = BytesToU64(hdr)
         /\ delivered = SubSeq(sent, PrefixLen + 1, PrefixLen + pullLen)
         /\ consumed = PrefixLen + pullLen
         /\ remaining = 0
         /\ wire = Drop(sent, PrefixLen + pullLen)
    /\ pullPc = "done" => pullStats = pullLen

\* pull_file returned Ok for a non-empty payload with a further byte, written
\* by a Push whose file grew, still in the stream behind it
PullReadsExactlyWitness ==
    /\ pullPc = "done"
    /\ pullLen > 0
    /\ wire # <<>>
    /\ Len(sent) > PrefixLen + pullLen

\* C8 (Spec): short-read rejection.  A copy in Pull whose stream ends before
\* the L declared payload bytes have arrived never returns: Pull reports a
\* count, or gets as far as the flush and the CLOSE byte, only with all L
\* bytes; a read of the bounded reader returns the whole of what it was asked
\* for (the buffer's size or what was left of L) and never less; the exact
\* read that meets the end of the stream returns an error, and a Pull that
\* has failed has no stats and, short of L bytes, has written no CLOSE byte.
ShortReadRejected ==
    /\ pullPc \in {"copy_flush", "write_u8", "done"} =>
         (written = pullLen /\ Len(delivered) = pullLen)
    /\ pullStats # -1 => pullStats = pullLen
    /\ reRet = -1 => pullPc = "err"
    /\ reRet >= 0 => reRet = Min(reAsk, pullLen - (Len(delivered) - reRet))
    /\ pullPc = "err" => pullStats = -1
    /\ (pullPc = "err" /\ Len(delivered) < pullLen) => backSent = <<>>

\* the stream ended inside a declared payload of two bytes after one of them,
\* the exact read returned an error and Pull failed
ShortReadRejectedWitness ==
    /\ pullPc = "err"
    /\ reRet = -1
    /\ pullLen = MaxLen
    /\ consumed > PrefixLen
    /\ consumed < PrefixLen + pullLen
    /\ pullStats = -1
    /\ backSent = <<>>

\* what Push has taken from its read half, and what it made of it
HandshakeState ==
    /\ Len(backSent) - Len(back) = (IF pushMsg = -1 THEN 0 ELSE 1)
    /\ pushMsg # -1 => (pushMsg = backSent[1] /\ pushPos = pushLen)
    /\ pushStats # -1 <=> pushPc = "done"
    /\ pushPc = "done" => (pushMsg = 0 /\ pushStats = pushLen)
    /\ pushMsg \notin {-1, 0} => pushPc = "panic"
    /\ pushPc \in {"err", "panic"} => pushStats = -1

\* the step of a Push that waits for the handshake byte on an ended stream
HandshakeEofStep ==
    (pushPc = "read_u8" /\ BackEof /\ pushPc' # pushPc)
        => (pushPc' = "err" /\ pushStats' = -1 /\ pushMsg' = -1)

\* C9 (SpecPeer): handshake validation in Push, against any peer.  Push takes
\* at most one byte from its read half, and none before its copy has returned
\* with the declared count; it has stats only if that byte is 0; a byte of
\* another value makes it panic, the end of the stream before any byte makes
\* it return an error, and in both cases it has no stats.
PushHandshakeValidation == []HandshakeState /\ [][HandshakeEofStep]_vars

\* the peer answered with a byte other than 0 and Push panicked without stats
PushHandshakeValidationWitness ==
    /\ pushPc = "panic"
    /\ pushMsg = 1
    /\ pushPos = pushLen
    /\ pushStats = -1

\* C10 (Spec): the source file changed during Push.  A copy that ends with a
\* count other than the L of the prefix makes Push panic: it reads no
\* handshake byte and has no stats; Push waits for the handshake, or has read
\* it, only with a copied count of exactly L.
PushFailsOnChangedFile ==
    /\ (pushPc \in {"read_u8", "done"} \/ pushMsg # -1 \/ pushStats # -1) => pushPos = pushLen
    /\ pushPc = "panic" => (pushPos # pushLen /\ pushMsg = -1 /\ pushStats = -1)
    /\ (pushPos > pushLen \/ pushPc = "panic") => modified

\* the file grew after the prefix was written: the copy returned more than L
\* and Push panicked
PushFailsOnChangedFileWitness ==
    /\ pushPc = "panic"
    /\ pushPos > pushLen
    /\ Len(sent) = PrefixLen + pushPos
    /\ pushMsg = -1

\* C11 (Spec): zero-length transfer.  With L = 0 in the prefix the bounded
\* reader never reads the stream: Pull takes the 8 prefix bytes and nothing
\* more, returns no payload byte, and a Pull that returns Ok has written the
\* CLOSE byte, reports 0 bytes and leaves a destination file that exists and
\* is empty; a Push of an empty, unchanged file has written the 8 prefix bytes
\* and nothing else, and when it returns Ok it has read the CLOSE byte and
\* reports 0 bytes.
ZeroLengthTransfer ==
    /\ pullLen = 0 =>
         /\ pullPc # "read_exact"
         /\ consumed = PrefixLen
         /\ delivered = <<>>
         /\ written = 0
         /\ pullPc = "done" =>
              (pullStats = 0 /\ backSent = <<CLOSE>> /\ dstExists /\ dst = <<>> /\ dstPending = <<>>)
    /\ (pushPc \in {"copy_read", "read_u8", "done"} /\ pushLen = 0 /\ ~modified) =>
         sent = U64ToBytes(0)
    /\ (pushPc = "done" /\ pushLen = 0) =>
         (pushStats = 0 /\ pushMsg = CLOSE /\ Len(sent) = PrefixLen)

\* an empty file was transferred over an output path that held something:
\* both sides returned Ok with 0 bytes after one read of the bounded reader
ZeroLengthTransferWitness ==
    /\ BothOk
    /\ pushLen = 0
    /\ pullLen = 0
    /\ reAsk > 0
    /\ reRet = 0
    /\ dstOld # <<>>
    /\ dstExists
    /\ dst = <<>>
    /\ pushStats = 0
    /\ pullStats = 0

\* C12 (Spec): idempotent destination handling.  Whatever the output path
\* held before, after a Pull that returned Ok the file holds exactly the
\* payload bytes Pull received, L of them, and none of the old bytes.
DestinationOverwritten ==
    pullPc = "done" =>
        /\ dstExists
        /\ dst = delivered
        /\ Len(dst) = pullLen
        /\ dstPending = <<>>
        /\ \A i \in 1..Len(dst) : dst[i] \in FileByte

\* a Pull returned Ok with a one-byte payload over a path that held a longer
\* file which the removal had left in place
DestinationOverwrittenWitness ==
    /\ pullPc = "done"
    /\ pullLen = 1
    /\ Len(dstOld) = MaxLen + 1
    /\ dst = delivered
    /\ Len(dst) = 1

\* ---- a Push and a Pull with nothing going wrong around them: the source
\* ---- file can be opened and stays as it is, the output file can be
\* ---- created, the connection stays up; the runtime polls every task that
\* ---- can go on, and the blocking file write completes
PullStepNoIoError ==
    \/ PullRemove
    \/ PullOpen
    \/ PullReadU64
    \/ PullCopyRead
    \/ PullReadExact
    \/ PullCopyWrite
    \/ PullCopyFlush
    \/ PullWriteU8

InitLive == Init /\ srcExists

NextLive ==
    \/ PushStep
    \/ PullStepNoIoError
    \/ FileWriteComplete

SpecLive ==
    /\ InitLive
    /\ [][NextLive]_vars
    /\ WF_vars(PushStep)
    /\ WF_vars(PullStepNoIoError)
    /\ WF_vars(FileWriteComplete)

\* C13 (SpecLive): completion without deadlock.  With an unchanged source
\* file, no I/O error and fair scheduling, no state short of both sides having
\* returned leaves every task blocked, and eventually both perform(Push) and
\* perform(Pull) have returned stats with the file's length.
TransferCompletes ==
    /\ [](~BothOk => ENABLED <<NextLive>>_vars)
    /\ <>(BothOk /\ pushStats = Len(src) /\ pullStats = Len(src))

\* both sides have returned their stats for a longest file, with the stream
\* never holding more than Cap of its 8 + L bytes
TransferCompletesWitness ==
    /\ BothOk
    /\ pushStats = MaxLen
    /\ pullStats = MaxLen
    /\ Len(sent) > Cap
    /\ mods = 0
    /\ ~linkDown

\* a step that is a call of ReadExact::read (the caller holds the reader)
IsReadCall == pullPc = "re_idle" /\ pullPc' # "inner"

\* a read of a reader with nothing remaining
ExhaustedStep ==
    remaining = 0 =>
        /\ remaining' = 0
        /\ consumed' = consumed
        /\ delivered' = delivered
        /\ pullPc' # "re_fill"
        /\ IsReadCall => (reRet' = 0 /\ wire' = wire)

\* the one way into Exhausted: an exact read that completes
BecomesExhaustedStep ==
    (remaining > 0 /\ remaining' = 0) =>
        (pullPc = "re_fill" /\ reRet' = reNeed /\ reNeed = remaining)

\* C14 (SpecRE): Exhausted is absorbing.  Once remaining is 0, for a reader
\* created with cap 0 too, every read with any buffer size returns 0, takes
\* nothing from the stream and leaves remaining at 0; remaining reaches 0 only
\* at the end of a read that returns what was left, and never leaves 0.
ExhaustedAbsorbing ==
    /\ [][ExhaustedStep]_vars
    /\ [][BecomesExhaustedStep]_vars
    /\ [](remaining = 0 => (pullPc # "re_fill" /\ reRet # -1))

\* a reader that returned its two bytes was read again, with a non-empty
\* buffer and bytes still in the stream, and returned 0
ExhaustedAbsorbingWitness ==
    /\ pullPc = "re_idle"
    /\ pullLen = MaxLen
    /\ remaining = 0
    /\ Len(delivered) = MaxLen
    /\ reAsk > 0
    /\ reRet = 0
    /\ wire # <<>>
    /\ consumed = MaxLen

\* the call of ReadExact::read on an active reader, buf.len() = reAsk'
ActiveCallStep ==
    (IsReadCall /\ remaining > 0) =>
        IF Min(reAsk', remaining) = 0
        THEN /\ reRet' = 0
             /\ pullPc' = "re_idle"
             /\ remaining' = remaining
             /\ wire' = wire
             /\ consumed' = consumed
        ELSE /\ pullPc' = "re_fill"
             /\ reNeed' = Min(reAsk', remaining)
             /\ remaining' = remaining
             /\ wire' = wire

\* the end of its exact read: all n bytes, or an error
ActiveReturnStep ==
    (pullPc = "re_fill" /\ pullPc' = "re_idle") =>
        \/ /\ reRet' = reNeed
           /\ Len(reBuf') = reNeed
           /\ reBuf' = SubSeq(delivered', Len(delivered) + 1, Len(delivered) + reNeed)
           /\ consumed' - consumed = reNeed - Len(reBuf)
           /\ remaining' = remaining - reNeed
        \/ /\ reRet' = -1
           /\ Len(reBuf) < reNeed
           /\ WireEof
           /\ remaining' = remaining
           /\ delivered' = delivered

\* C15 (SpecRE): the read step of an active reader.  A read with a buffer of
\* k bytes and remaining > 0 sizes its exact read n = min(k, remaining); with
\* n = 0 it returns 0 and touches neither the stream nor remaining; otherwise
\* it returns only with all n bytes taken from the stream, returning n and
\* lowering remaining by exactly n, or, the stream ending before n bytes, with
\* an error and remaining as it was, never with a smaller count.
ActiveReadStep ==
    /\ [][ActiveCallStep]_vars
    /\ [][ActiveReturnStep]_vars
    /\ [](pullPc = "re_fill" => (reNeed = Min(reAsk, remaining) /\ Len(reBuf) < reNeed))
    /\ [](reRet > 0 => (reRet = reNeed /\ Len(reBuf) = reNeed))

\* a read with a two-byte buffer on a reader with one byte remaining returned
\* that one byte, and bytes are still in the stream
ActiveReadStepWitness ==
    /\ pullPc = "re_idle"
    /\ pullLen = MaxLen
    /\ reAsk = MaxLen
    /\ reRet = 1
    /\ remaining = 0
    /\ Len(delivered) = MaxLen
    /\ wire # <<>>

\* Push has written the length prefix and the whole payload to its write half
PushWroteAll ==
    /\ pushOut = <<>>
    /\ pushPos = pushLen
    /\ Len(sent) = PrefixLen + pushLen
    /\ Take(sent, PrefixLen) = U64ToBytes(pushLen)

\* Pull has read the length prefix and all L payload bytes from its read half
PullReadAll ==
    /\ Len(hdr) = PrefixLen
    /\ pullLen = BytesToU64(hdr)
    /\ consumed = PrefixLen + pullLen
    /\ Len(delivered) = pullLen
    /\ remaining = 0

\* a step in which Push reads its read half, or Pull writes its write half
HalvesStep ==
    /\ (pushPc = "read_u8" /\ pushPc' # "read_u8") => PushWroteAll
    /\ (back' # back /\ Len(back') < Len(back)) => PushWroteAll
    /\ backSent' # backSent => PullReadAll
    /\ (pullPc = "write_u8" /\ pullPc' # "write_u8") => PullReadAll

\* C16 (Spec): disjoint use of the two halves.  Push performs no read on its
\* read half before the length prefix and the whole payload are written to the
\* write half; Pull performs no write on its write half before the length
\* prefix and all L payload bytes are read from the read half.
DisjointHalves ==
    /\ []((pushPc = "read_u8" \/ pushMsg # -1) => PushWroteAll)
    /\ []((pullPc = "write_u8" \/ backSent # <<>>) => PullReadAll)
    /\ [][HalvesStep]_vars

\* both sides have used their second half, after a payload of MaxLen bytes
\* that took more than one write
DisjointHalvesWitness ==
    /\ pushMsg = CLOSE
    /\ backSent = <<CLOSE>>
    /\ pushLen = MaxLen
    /\ Len(sent) = PrefixLen + MaxLen
    /\ pullLen = MaxLen
    /\ consumed = PrefixLen + MaxLen

\* nothing of pull_file after the prefix read has happened: no ReadExact, no
\* payload copied, no handshake byte, no stats
NothingAfterPrefix ==
    /\ pullLen = -1
    /\ reAsk = -1
    /\ reRet = -2
    /\ consumed = Len(hdr)
    /\ delivered = <<>>
    /\ written = 0
    /\ dstPending = <<>>
    /\ backSent = <<>>
    /\ pullStats = -1

\* the prefix read meeting the end of the stream, and the error being final
TruncatedPrefixStep ==
    /\ (pullPc = "read_u64" /\ WireEof /\ pullPc' # pullPc) =>
          (pullPc' = "err" /\ pullErr' = "UnexpectedEof" /\ Len(hdr') < PrefixLen)
    /\ pullPc = "err" =>
          (pullPc' = "err" /\ pullErr' = pullErr /\ hdr' = hdr /\ backSent' = backSent)

\* C17 (Spec): truncated length prefix.  When the read half ends before 8 bytes
\* are available, Pull fails with UnexpectedEof; it has constructed no bounded
\* reader and copied no payload, writes no completion signal and returns no
\* stats.
TruncatedPrefix ==
    /\ [](Len(hdr) < PrefixLen =>
            (NothingAfterPrefix /\ pullPc \in {"start", "open", "read_u64", "err"}))
    /\ []((pullPc = "err" /\ pullErr # "Fs" /\ Len(hdr) < PrefixLen) =>
            pullErr = "UnexpectedEof")
    /\ [][TruncatedPrefixStep]_vars

\* the connection went down with part of the prefix read
TruncatedPrefixWitness ==
    /\ pullPc = "err"
    /\ pullErr = "UnexpectedEof"
    /\ Len(hdr) > 0
    /\ Len(hdr) < PrefixLen
    /\ pullStats = -1
    /\ backSent = <<>>

\* the destination holds only bytes received in this transfer, in order
HoldsReceivedPrefix ==
    /\ dstExists
    /\ Len(dst) <= Len(delivered)
    /\ dst = Take(delivered, Len(dst))
    /\ (dstOld # <<>> => dst # dstOld)

\* C18 (Spec): the destination after a transport failure.  Pull removes and
\* re-creates (truncates) the destination before it reads any byte of the
\* length prefix, so after a Pull that failed on the transport (truncated
\* prefix, short payload) the destination no longer holds its previous
\* content: it holds a prefix, possibly empty, of the payload bytes received.
DestinationAfterTransportFailure ==
    /\ [](pullPc \in {"start", "open"} => (consumed = 0 /\ hdr = <<>>))
    /\ [](consumed > 0 => HoldsReceivedPrefix)
    /\ []((pullPc = "err" /\ pullErr # "Fs") => HoldsReceivedPrefix)

\* the payload came short after one byte; the destination had old content and
\* now holds that one byte
DestinationAfterTransportFailureWitness ==
    /\ pullPc = "err"
    /\ pullErr = "UnexpectedEof"
    /\ dstOld # <<>>
    /\ pullLen = MaxLen
    /\ Len(delivered) = 1
    /\ dst = delivered

\* a read of the bounded reader returning, with a count or with an error
ConservationStep ==
    /\ remaining' <= remaining
    /\ (pullPc = "re_fill" /\ reRet' = -1) =>
          (remaining' = remaining /\ delivered' = delivered)
    /\ (pullPc = "re_fill" /\ reRet' >= 0) =>
          (/\ Len(delivered') = Len(delivered) + reRet'
           /\ remaining' = remaining - reRet'
           /\ reRet' <= remaining)
    /\ (pullPc = "re_idle" /\ pullPc' = "re_idle") => delivered' = delivered
    /\ pullLen' = pullLen

\* C19 (SpecRE): conservation in the bounded reader.  For a ReadExact created
\* with cap N, in every reachable state remaining plus the bytes returned by
\* successful reads equals N; remaining never increases, never goes below 0,
\* and a read that fails leaves it unchanged.
RemainingConserved ==
    /\ [](remaining >= 0 /\ remaining + Len(delivered) = pullLen)
    /\ [][ConservationStep]_vars

\* of a cap of two, one byte was returned and the next read failed
RemainingConservedWitness ==
    /\ pullPc = "re_idle"
    /\ pullLen = MaxLen
    /\ reRet = -1
    /\ remaining = MaxLen - 1
    /\ Len(delivered) = 1

====
